---------------------------- MODULE Spec2Model ----------------------------
(***************************************************************************)
(* A model of the RayCastEngine: the GameCanvas driver loop                *)
(* (game_canvas.cpp) and the RayCastGame adapter (main.cpp): viewer        *)
(* movement and collision, the per-frame line list, ray casting, the       *)
(* column fog and texture sampling.                                        *)
(*                                                                         *)
(* Numbers.  f32 is modelled bit for bit: a finite value is <<m, e>>, the  *)
(* number m * 2^e with a 24-bit significand 2^23 <= |m| < 2^24 (or         *)
(* <<0, 0>>), and every operation rounds to nearest, ties to even, as the  *)
(* IEEE-754 single precision operations of the build do.  Infinities and   *)
(* NaN are modelled; the exponent range is not (nothing in the program     *)
(* comes near 2^127 or 2^-126) and neither is the sign of zero (it can     *)
(* only flip the sign of an infinity that x / 0 yields).  cosf, sinf and   *)
(* tanf are tabulated, correctly rounded, at the arguments the modelled    *)
(* runs evaluate them at.  The f64 accumulator of the driver loop is an    *)
(* integer count of 1/60 ms, which is exact for the whole-millisecond      *)
(* tick differences it adds up.                                            *)
(***************************************************************************)
EXTENDS Integers, Sequences, FiniteSets, TLC


(***************************************************************************)
(* State.  pc, running, accum, canRender and held are GameCanvas::run's    *)
(* locals and GameCanvas's key table; viewer, models and lines are         *)
(* RayCastGame's members.  frames counts the passes of run's loop.  calls, *)
(* move, drawn and col record what the adapter's callbacks were asked to   *)
(* do and what they left, for the properties below.  query and result are  *)
(* the arguments and the outcome of one call of a function taken alone.    *)
(***************************************************************************)
VARIABLES pc, running, accum, canRender, held, frames,
          viewer, models, lines,
          calls, move, drawn, col,
          query, result

vars == <<pc, running, accum, canRender, held, frames, viewer, models, lines,
          calls, move, drawn, col, query, result>>
canvasVars == <<pc, running, accum, canRender, held, frames>>
gameVars == <<viewer, models, lines>>
traceVars == <<calls, move, drawn, col>>
callVars == <<query, result>>

(***************************************************************************)
(* f32 arithmetic                                                          *)
(***************************************************************************)
Abs(x) == IF x < 0 THEN -x ELSE x
Sgn(x) == IF x < 0 THEN -1 ELSE IF x > 0 THEN 1 ELSE 0
Pow2 == [i \in 0..30 |-> 2^i]

\* the exponent field 9999 marks an infinity or a NaN
NaN == <<0, 9999>>
PInf == <<1, 9999>>
NInf == <<-1, 9999>>
Zero == <<0, 0>>
One == <<8388608, -23>>
Two == <<8388608, -22>>
IsNaN(a) == a = NaN
IsInf(a) == a[2] = 9999 /\ a[1] # 0
IsFinite(a) == a[2] # 9999
Inf(s) == IF s < 0 THEN NInf ELSE PInf

BitLen4(n) == IF n < 4 THEN (IF n < 2 THEN n ELSE 2) ELSE (IF n < 8 THEN 3 ELSE 4)
BitLen8(n) == IF n < 16 THEN BitLen4(n) ELSE 4 + BitLen4(n \div 16)
BitLen16(n) == IF n < 256 THEN BitLen8(n) ELSE 8 + BitLen8(n \div 256)
BitLen(n) == IF n < 65536 THEN BitLen16(n) ELSE 16 + BitLen16(n \div 65536)

\* s * (M + frac) * 2^e, where 0 <= frac < 1 and frac > 0 iff sticky, rounded
\* to nearest, ties to even, to a 24-bit significand
RoundUp(s, q, e) ==
  IF q = 16777216 THEN <<s * 8388608, e + 1>> ELSE <<s * q, e>>
RoundCut(s, q, r, half, e, sticky) ==
  RoundUp(s, IF r > half \/ (r = half /\ (sticky \/ q % 2 = 1)) THEN q + 1 ELSE q, e)
RoundBits(s, M, e, sticky, n) ==
  IF n <= 24 THEN <<s * M * Pow2[24 - n], e - (24 - n)>>
  ELSE RoundCut(s, M \div Pow2[n - 24], M % Pow2[n - 24], Pow2[n - 25], e + (n - 24), sticky)
RoundPack(s, M, e, sticky) ==
  IF M = 0 THEN Zero ELSE RoundBits(s, M, e, sticky, BitLen(M))

FNeg(a) == <<-a[1], a[2]>>

\* the smaller operand is aligned with three guard bits and a sticky bit
AddSum(S, e, sticky) ==
  RoundPack(IF S >= 0 THEN 1 ELSE -1,
            IF S >= 0 THEN S ELSE IF sticky THEN -S - 1 ELSE -S, e, sticky)
AddGap(hi, L, gap) ==
  AddSum(hi[1] * 8 + (L \div Pow2[gap]), hi[2] - 3, L % Pow2[gap] # 0)
AddAligned(hi, lo) ==
  AddGap(hi, lo[1] * 8, IF hi[2] - lo[2] > 28 THEN 28 ELSE hi[2] - lo[2])
AddFinite(a, b) ==
  IF a[1] = 0 THEN b
  ELSE IF b[1] = 0 THEN a
  ELSE AddAligned(IF a[2] >= b[2] THEN a ELSE b, IF a[2] >= b[2] THEN b ELSE a)

FAdd(a, b) ==
  IF IsNaN(a) \/ IsNaN(b) THEN NaN
  ELSE IF IsInf(a) THEN (IF IsInf(b) /\ a # b THEN NaN ELSE a)
  ELSE IF IsInf(b) THEN b
  ELSE AddFinite(a, b)

FSub(a, b) == FAdd(a, FNeg(b))

\* the 48-bit product of two 24-bit significands, from 12-bit halves
MulOut(s, top, rem, e) ==
  RoundPack(s, top * 4 + rem \div 4194304, e, rem % 4194304 # 0)
MulLow(s, top, low, e) ==
  MulOut(s, top + low \div 16777216, low % 16777216, e)
MulMid(s, hh, mid, ll, e) ==
  MulLow(s, hh + mid \div 4096, (mid % 4096) * 4096 + ll, e)
MulHalves(s, x, y, e) ==
  MulMid(s, (x \div 4096) * (y \div 4096),
         (x \div 4096) * (y % 4096) + (x % 4096) * (y \div 4096),
         (x % 4096) * (y % 4096), e)
FMul(a, b) ==
  IF IsNaN(a) \/ IsNaN(b) THEN NaN
  ELSE IF IsInf(a) \/ IsInf(b)
    THEN (IF a[1] = 0 \/ b[1] = 0 THEN NaN ELSE Inf(Sgn(a[1]) * Sgn(b[1])))
  ELSE IF a[1] = 0 \/ b[1] = 0 THEN Zero
  ELSE MulHalves(Sgn(a[1]) * Sgn(b[1]), Abs(a[1]), Abs(b[1]), a[2] + b[2] + 22)

\* long division, seven quotient bits a step; x / 0 is an infinity, 0 / 0 NaN
RECURSIVE DivSteps(_, _, _, _, _, _)
DivSteps(s, q, r, y, e, k) ==
  IF k = 0 THEN RoundPack(s, q, e, r # 0)
  ELSE DivSteps(s, q * 128 + (r * 128) \div y, (r * 128) % y, y, e, k - 1)
DivMag(s, x, y, e) == DivSteps(s, x \div y, x % y, y, e, 4)
FDiv(a, b) ==
  IF IsNaN(a) \/ IsNaN(b) THEN NaN
  ELSE IF IsInf(a)
    THEN (IF IsInf(b) THEN NaN ELSE Inf(Sgn(a[1]) * (IF b[1] < 0 THEN -1 ELSE 1)))
  ELSE IF IsInf(b) THEN Zero
  ELSE IF b[1] = 0 THEN (IF a[1] = 0 THEN NaN ELSE Inf(Sgn(a[1])))
  ELSE IF a[1] = 0 THEN Zero
  ELSE DivMag(Sgn(a[1]) * Sgn(b[1]), Abs(a[1]), Abs(b[1]), a[2] - b[2] - 28)

\* restoring square root, two radicand bits a step: 13 steps for the integer
\* part of a radicand below 2^26, then 13 for the fraction
RECURSIVE SqrtStep(_, _, _, _)
SqrtTry(x, r, t, root, i) ==
  IF r >= t THEN SqrtStep(x, r - t, root * 2 + 1, i - 1)
  ELSE SqrtStep(x, r, root * 2, i - 1)
SqrtStep(x, rem, root, i) ==
  IF i = 0 THEN <<root, rem>>
  ELSE SqrtTry(x, rem * 4 + (IF i > 13 THEN (x \div Pow2[2 * (i - 14)]) % 4 ELSE 0),
               root * 4 + 1, root, i)
SqrtPack(sr, e) == RoundPack(1, sr[1], e, sr[2] # 0)
SqrtMag(x, e) == SqrtPack(SqrtStep(x, 0, 0, 26), (e \div 2) - 13)

FSqrt(a) ==
  IF IsNaN(a) \/ a[1] < 0 THEN NaN
  ELSE IF IsInf(a) THEN PInf
  ELSE IF a[1] = 0 THEN Zero
  ELSE IF a[2] % 2 # 0 THEN SqrtMag(a[1] * 2, a[2] - 1)
  ELSE SqrtMag(a[1], a[2])

\* comparisons: every comparison with a NaN is false
FEq(a, b) == ~IsNaN(a) /\ ~IsNaN(b) /\ a = b
FLt(a, b) ==
  IF IsNaN(a) \/ IsNaN(b) \/ a = b THEN FALSE
  ELSE IF IsInf(a) THEN a[1] < 0
  ELSE IF IsInf(b) THEN b[1] > 0
  ELSE IF Sgn(a[1]) # Sgn(b[1]) THEN Sgn(a[1]) < Sgn(b[1])
  ELSE IF a[1] > 0 THEN (a[2] < b[2] \/ (a[2] = b[2] /\ a[1] < b[1]))
  ELSE (a[2] > b[2] \/ (a[2] = b[2] /\ a[1] < b[1]))
FLe(a, b) == FLt(a, b) \/ FEq(a, b)
FGt(a, b) == FLt(b, a)
FGe(a, b) == FLe(b, a)

\* an unsigned integer below 2^31 converted to f32
FromInt(n) == RoundPack(1, n, 0, FALSE)

(***************************************************************************)
(* Literals of the source, as f32                                          *)
(***************************************************************************)
\* rad(x) is x * 0.0174533f = 0.017453299835324287
DegToRad == <<9370169, -29>>
\* blockSize = 8.0
blockSize == <<8388608, -20>>
\* maxDepth = 60.0
maxDepth == <<15728640, -18>>
\* f32(timeStep), timeStep = 1.0 / 60.0 = 0.01666666753590107
StepDt == <<8947849, -29>>
\* 1.8f = 1.7999999523162842
TurnRate == <<15099494, -23>>
\* 4.0f = 4.0
MoveSpeed == <<8388608, -21>>
\* 0.8f = 0.800000011920929
CollisionRadius == <<13421773, -24>>
\* M_PI * 2.0f is the double 6.283185307179586; no f32 lies between it and
\* the f32 6.2831854820251465, so a < M_PI * 2.0f is a < TwoPi for an f32 a
TwoPi == <<13176795, -21>>
\* f32((M_PI * 2.0f) / 12) = 0.5235987901687622
PillarStep == <<8784530, -24>>
\* f32((M_PI * 2.0f) / 16) = 0.39269909262657166
RingStep == <<13176795, -25>>
\* 0.1f = 0.10000000149011612
PillarRadius == <<13421773, -27>>
\* f32(M_PI * 2.0f * 0.1f) = 0.6283185482025146
PillarMaxU == <<10541436, -24>>
\* 1.5f = 1.5
RingCentre == <<12582912, -23>>
\* 6 as f32 = 6.0
Six == <<12582912, -21>>
\* 8.0f = 8.0
StartCoord == <<8388608, -20>>

(***************************************************************************)
(* cosf and sinf, correctly rounded, at every argument the modelled runs   *)
(* pass: the vertex angles of a Pillar, the ring angles of onSetup, the    *)
(* viewer rotations within 6 turn steps of 0, and the arguments -v2.y of   *)
(* raySeg's normal for the scene's segments.  argument :> <<cosf, sinf>>   *)
(***************************************************************************)
TrigTable ==
  (<<-12582912, -18>> :> <<<<-10739840, -24>>, <<12889174, -24>>>>)
  @@ (<<-13421824, -25>> :> <<<<15452829, -24>>, <<-13066758, -25>>>>)
  @@ (<<-13421792, -25>> :> <<<<15452836, -24>>, <<-13066729, -25>>>>)
  @@ (<<-13421760, -25>> :> <<<<15452842, -24>>, <<-13066699, -25>>>>)
  @@ (<<-13421696, -25>> :> <<<<15452854, -24>>, <<-13066641, -25>>>>)
  @@ (<<-9825536, -25>> :> <<<<16063053, -24>>, <<-9685720, -25>>>>)
  @@ (<<-9825472, -25>> :> <<<<16063063, -24>>, <<-9685659, -25>>>>)
  @@ (<<-9825440, -25>> :> <<<<16063067, -24>>, <<-9685629, -25>>>>)
  @@ (<<-9825408, -25>> :> <<<<16063072, -24>>, <<-9685598, -25>>>>)
  @@ (<<-9825280, -25>> :> <<<<16063090, -24>>, <<-9685475, -25>>>>)
  @@ (<<-12079596, -26>> :> <<<<16506158, -24>>, <<-12014472, -26>>>>)
  @@ (<<-10066330, -26>> :> <<<<16588826, -24>>, <<-10028624, -26>>>>)
  @@ (<<-16106128, -27>> :> <<<<16656565, -24>>, <<-16067501, -27>>>>)
  @@ (<<-14385664, -27>> :> <<<<16680941, -24>>, <<-14358136, -27>>>>)
  @@ (<<-14385408, -27>> :> <<<<16680944, -24>>, <<-14357882, -27>>>>)
  @@ (<<-14385152, -27>> :> <<<<16680948, -24>>, <<-14357627, -27>>>>)
  @@ (<<-12079596, -27>> :> <<<<16709314, -24>>, <<-12063295, -27>>>>)
  @@ (<<-16106128, -28>> :> <<<<16747026, -24>>, <<-16096466, -28>>>>)
  @@ (<<-16106128, -29>> :> <<<<16769667, -24>>, <<-16103712, -29>>>>)
  @@ (Zero :> <<<<8388608, -23>>, Zero>>)
  @@ (<<16106128, -29>> :> <<<<16769667, -24>>, <<16103712, -29>>>>)
  @@ (<<16106128, -28>> :> <<<<16747026, -24>>, <<16096466, -28>>>>)
  @@ (<<12079596, -27>> :> <<<<16709314, -24>>, <<12063295, -27>>>>)
  @@ (<<14385152, -27>> :> <<<<16680948, -24>>, <<14357627, -27>>>>)
  @@ (<<14385408, -27>> :> <<<<16680944, -24>>, <<14357882, -27>>>>)
  @@ (<<14385472, -27>> :> <<<<16680943, -24>>, <<14357945, -27>>>>)
  @@ (<<14385536, -27>> :> <<<<16680943, -24>>, <<14358009, -27>>>>)
  @@ (<<14385664, -27>> :> <<<<16680941, -24>>, <<14358136, -27>>>>)
  @@ (<<16106128, -27>> :> <<<<16656565, -24>>, <<16067501, -27>>>>)
  @@ (<<10066330, -26>> :> <<<<16588826, -24>>, <<10028624, -26>>>>)
  @@ (<<12079596, -26>> :> <<<<16506158, -24>>, <<12014472, -26>>>>)
  @@ (<<9825280, -25>> :> <<<<16063090, -24>>, <<9685475, -25>>>>)
  @@ (<<9825408, -25>> :> <<<<16063072, -24>>, <<9685598, -25>>>>)
  @@ (<<9825424, -25>> :> <<<<16063069, -24>>, <<9685613, -25>>>>)
  @@ (<<9825440, -25>> :> <<<<16063067, -24>>, <<9685629, -25>>>>)
  @@ (<<9825472, -25>> :> <<<<16063063, -24>>, <<9685659, -25>>>>)
  @@ (<<9825536, -25>> :> <<<<16063053, -24>>, <<9685720, -25>>>>)
  @@ (<<13176795, -25>> :> <<<<15500126, -24>>, <<12840726, -25>>>>)
  @@ (<<13421696, -25>> :> <<<<15452854, -24>>, <<13066641, -25>>>>)
  @@ (<<13421760, -25>> :> <<<<15452842, -24>>, <<13066699, -25>>>>)
  @@ (<<13421792, -25>> :> <<<<15452836, -24>>, <<13066729, -25>>>>)
  @@ (<<13421824, -25>> :> <<<<15452829, -24>>, <<13066758, -25>>>>)
  @@ (<<8784530, -24>> :> <<<<14529495, -24>>, <<8388608, -24>>>>)
  @@ (<<13176795, -24>> :> <<<<11863283, -24>>, <<11863283, -24>>>>)
  @@ (<<8784530, -23>> :> <<<<16777215, -25>>, <<14529496, -24>>>>)
  @@ (<<9882596, -23>> :> <<<<12840725, -25>>, <<15500126, -24>>>>)
  @@ (<<13176795, -23>> :> <<<<-12303662, -48>>, <<8388608, -23>>>>)
  @@ (<<16470994, -23>> :> <<<<-12840728, -25>>, <<15500126, -24>>>>)
  @@ (<<8784530, -22>> :> <<<<-8388609, -24>>, <<14529495, -24>>>>)
  @@ (<<9882596, -22>> :> <<<<-11863283, -24>>, <<11863283, -24>>>>)
  @@ (<<10980662, -22>> :> <<<<-14529495, -24>>, <<8388609, -24>>>>)
  @@ (<<11529695, -22>> :> <<<<-15500126, -24>>, <<12840727, -25>>>>)
  @@ (<<13176794, -22>> :> <<<<-8388608, -23>>, <<10625385, -46>>>>)
  @@ (<<14823893, -22>> :> <<<<-15500128, -24>>, <<-12840718, -25>>>>)
  @@ (<<15372926, -22>> :> <<<<-14529497, -24>>, <<-16777209, -25>>>>)
  @@ (<<16470992, -22>> :> <<<<-11863287, -24>>, <<-11863280, -24>>>>)
  @@ (<<8784529, -21>> :> <<<<-8388613, -24>>, <<-14529492, -24>>>>)
  @@ (<<9059046, -21>> :> <<<<-12840730, -25>>, <<-15500126, -24>>>>)
  @@ (<<9882595, -21>> :> <<<<-16357647, -45>>, <<-8388608, -23>>>>)
  @@ (<<9882596, -21>> :> <<<<13426222, -50>>, <<-8388608, -23>>>>)
  @@ (<<10706146, -21>> :> <<<<12840731, -25>>, <<-15500125, -24>>>>)
  @@ (<<10980661, -21>> :> <<<<16777199, -25>>, <<-14529500, -24>>>>)
  @@ (<<11529696, -21>> :> <<<<11863287, -24>>, <<-11863279, -24>>>>)
  @@ (<<12078727, -21>> :> <<<<14529490, -24>>, <<-8388618, -24>>>>)
  @@ (<<12353246, -21>> :> <<<<15500130, -24>>, <<-12840710, -25>>>>)
  @@ (<<13176793, -21>> :> <<<<8388608, -23>>, <<-13701300, -44>>>>)
  @@ (<<12582912, -18>> :> <<<<-10739840, -24>>, <<-12889174, -24>>>>)

\* tanf, correctly rounded, at fov / 2.0f for every fov that holding X from
\* rad(90) reaches.  argument :> tanf
TanTable ==
  (<<13176800, -24>> :> <<8388613, -23>>)
  @@ (<<13316610, -24>> :> <<8529602, -23>>)
  @@ (<<13456420, -24>> :> <<8673000, -23>>)
  @@ (<<13596230, -24>> :> <<8818890, -23>>)
  @@ (<<13736040, -24>> :> <<8967360, -23>>)
  @@ (<<13875850, -24>> :> <<9118498, -23>>)
  @@ (<<14015660, -24>> :> <<9272400, -23>>)
  @@ (<<14155470, -24>> :> <<9429163, -23>>)
  @@ (<<14295280, -24>> :> <<9588891, -23>>)
  @@ (<<14435090, -24>> :> <<9751692, -23>>)
  @@ (<<14574900, -24>> :> <<9917677, -23>>)
  @@ (<<14714710, -24>> :> <<10086966, -23>>)
  @@ (<<14854520, -24>> :> <<10259682, -23>>)
  @@ (<<14994330, -24>> :> <<10435955, -23>>)
  @@ (<<15134140, -24>> :> <<10615922, -23>>)
  @@ (<<15273950, -24>> :> <<10799724, -23>>)
  @@ (<<15413760, -24>> :> <<10987514, -23>>)
  @@ (<<15553570, -24>> :> <<11179448, -23>>)
  @@ (<<15693380, -24>> :> <<11375694, -23>>)
  @@ (<<15833190, -24>> :> <<11576425, -23>>)
  @@ (<<15973000, -24>> :> <<11781828, -23>>)
  @@ (<<16112810, -24>> :> <<11992095, -23>>)
  @@ (<<16252620, -24>> :> <<12207433, -23>>)
  @@ (<<16392430, -24>> :> <<12428058, -23>>)
  @@ (<<16532240, -24>> :> <<12654199, -23>>)
  @@ (<<16672050, -24>> :> <<12886098, -23>>)
  @@ (<<8405930, -23>> :> <<13124011, -23>>)
  @@ (<<8475835, -23>> :> <<13368210, -23>>)
  @@ (<<8545740, -23>> :> <<13618983, -23>>)
  @@ (<<8615645, -23>> :> <<13876634, -23>>)
  @@ (<<8685550, -23>> :> <<14141488, -23>>)
  @@ (<<8755455, -23>> :> <<14413890, -23>>)
  @@ (<<8784533, -23>> :> <<14529508, -23>>)

(***************************************************************************)
(* Vec3, the tabulated libm functions and the program's constants          *)
(***************************************************************************)
Vec3(x, y, z) == <<x, y, z>>
VAdd(a, o) == <<FAdd(a[1], o[1]), FAdd(a[2], o[2]), FAdd(a[3], o[3])>>
VSub(a, o) == <<FSub(a[1], o[1]), FSub(a[2], o[2]), FSub(a[3], o[3])>>
VScale(a, s) == <<FMul(a[1], s), FMul(a[2], s), FMul(a[3], s)>>
dot(a, o) == FAdd(FAdd(FMul(a[1], o[1]), FMul(a[2], o[2])), FMul(a[3], o[3]))
cross(a, o) ==
  <<FSub(FMul(a[2], o[3]), FMul(a[3], o[2])),
    FSub(FMul(a[3], o[1]), FMul(a[1], o[3])),
    FSub(FMul(a[1], o[2]), FMul(a[2], o[1]))>>
length(a) == FSqrt(dot(a, a))

cosf(a) == TrigTable[a][1]
sinf(a) == TrigTable[a][2]
tanf(a) == TanTable[a]
\* Vec3(f32 angle, f32 z): the constructor a call with one or two arguments
\* selects
Vec3Angle(angle, z) == <<cosf(angle), sinf(angle), z>>

(***************************************************************************)
(* Viewer, Model, Block, Pillar, onSetup                                   *)
(***************************************************************************)
Keys == {"x", "z", "LEFT", "RIGHT", "UP", "DOWN"}

rad(x) == FMul(FromInt(x), DegToRad)

\* Viewer viewer{}: Object's position and rotation, fov{ rad(60.0f) }
InitViewer == [position |-> Vec3(Zero, Zero, Zero), rotation |-> Zero, fov |-> rad(60)]

Vert(pos, u) == [pos |-> pos, u |-> u]

\* indices are the source's, from 0; vertices[i] of the source is
\* m.vertices[i + 1] here
Block(x, y, w, h) ==
  LET u1 == FMul(w, Two)
      u2 == FMul(h, Two)
  IN [position |-> Vec3(x, y, Zero),
      rotation |-> Zero,
      vertices |-> << Vert(Vec3(Zero, Zero, Zero), Zero), Vert(Vec3(w, Zero, Zero), u1),
                      Vert(Vec3(w, Zero, Zero), Zero), Vert(Vec3(w, h, Zero), u2),
                      Vert(Vec3(w, h, Zero), Zero), Vert(Vec3(Zero, h, Zero), u1),
                      Vert(Vec3(Zero, h, Zero), Zero), Vert(Vec3(Zero, Zero, Zero), u2) >>,
      indices |-> <<0, 1, 2, 3, 4, 5, 6, 7>>,
      texture |-> "none"]

\* for (f32 a = 0.0f; a < M_PI * 2.0f; a += step) addVert(...), u += ustep
RECURSIVE PillarVerts(_, _, _, _, _, _)
PillarVerts(a, u, x, y, radius, ustep) ==
  IF FLt(a, TwoPi)
  THEN << Vert(Vec3(FAdd(FMul(cosf(a), radius), x), FAdd(FMul(sinf(a), radius), y), Zero), u) >>
       \o PillarVerts(FAdd(a, PillarStep), FAdd(u, ustep), x, y, radius, ustep)
  ELSE << >>

\* for (i = 0; i < segments - 1; i++) { addIndex(i); addIndex(i + 1); }
RECURSIVE PillarIndices(_, _)
PillarIndices(i, segments) ==
  IF i < segments - 1 THEN <<i, i + 1>> \o PillarIndices(i + 1, segments) ELSE << >>

\* maxu = M_PI * 2.0f * radius is evaluated in double: PillarMaxU is its value
\* for the one radius the program passes, 0.1f
Pillar(x, y, radius) ==
  [position |-> Vec3(x, y, Zero),
   rotation |-> Zero,
   vertices |-> PillarVerts(Zero, Zero, x, y, radius, FDiv(PillarMaxU, Six)),
   indices |-> PillarIndices(0, 12) \o <<0, 12 - 1>>,
   texture |-> "none"]

\* for (f32 r = 0.0f; r < M_PI * 2.0f; r += step) { pil = new Pillar(...);
\* pil->texture = tpillar; add(pil); }
RECURSIVE RingPillars(_)
RingPillars(r) ==
  IF FLt(r, TwoPi)
  THEN << [Pillar(FAdd(cosf(r), RingCentre), FAdd(sinf(r), RingCentre), PillarRadius)
             EXCEPT !.texture = "pillar.png"] >>
       \o RingPillars(FAdd(r, RingStep))
  ELSE << >>

\* the models onSetup adds: new Block(0, 0, 6, 6), then the ring of pillars
SetupModels ==
  << [Block(Zero, Zero, Six, Six) EXCEPT !.texture = "bricks.png"] >> \o RingPillars(Zero)

\* viewer.position = Vec3(8.0f, 8.0f, 0.0f); viewer.fov = rad(90);
SetupViewer(v) ==
  [v EXCEPT !.position = Vec3(StartCoord, StartCoord, Zero), !.fov = rad(90)]

(***************************************************************************)
(* onDraw's line list                                                      *)
(***************************************************************************)
\* one Line: the texture pointer &model->texture is the model's place m in
\* models (a model is never moved or freed once added)
MakeLine(model, m, i) ==
  LET va == model.vertices[model.indices[i + 1] + 1]
      vb == model.vertices[model.indices[i + 2] + 1]
  IN [a |-> VAdd(va.pos, model.position),
      b |-> VAdd(vb.pos, model.position),
      u0 |-> va.u,
      u1 |-> vb.u,
      texture |-> m]

\* for (u32 i = 0; i < model->indices.size(); i += 2) lines.push_back(ln):
\* the k-th pass has i = 2 * (k - 1)
ModelLines(model, m) ==
  [k \in 1..((Len(model.indices) + 1) \div 2) |-> MakeLine(model, m, 2 * (k - 1))]

\* for (auto&& model : models), from the m-th model on
RECURSIVE PushLines(_, _)
PushLines(ms, m) ==
  IF m <= Len(ms) THEN ModelLines(ms[m], m) \o PushLines(ms, m + 1) ELSE << >>

\* a faulty rebuild: the list is not cleared first
BuildLinesKeep(ls, ms) == ls \o PushLines(ms, 1)
\* lines.clear(); then the loops append to it
BuildLines(ls, ms) == SubSeq(ls, 1, 0) \o PushLines(ms, 1)

(***************************************************************************)
(* closestPoint, circleLines, raySeg, rayLines                             *)
(***************************************************************************)
\* closestPoint(a, b, p, t): ap = p - a, ab = b - a,
\* t = ap.dot(ab) / ab.dot(ab); returns a + ab * t and leaves t in *t
ClosestAt(a, ab, t) == [p |-> VAdd(a, VScale(ab, t)), t |-> t]
ClosestAlong(a, ap, ab) == ClosestAt(a, ab, FDiv(dot(ap, ab), dot(ab, ab)))
closestPoint(a, b, p) == ClosestAlong(a, VSub(p, a), VSub(b, a))

\* a faulty test: the closest point need not lie on the segment
BlocksAnywhere(c, o, radius) == FLt(length(VSub(c.p, o)), radius)
\* the body of circleLines' loop for one line: does it reject o
Blocks(c, o, radius) ==
  /\ FGe(c.t, Zero)
  /\ FLe(c.t, One)
  /\ FLt(length(VSub(c.p, o)), radius)
LineBlocks(line, o, radius) ==
  Blocks(closestPoint(VScale(line.a, blockSize), VScale(line.b, blockSize), o), o, radius)

\* for (auto&& line : lines) { ... return true; } return false; the lines are
\* tried in order and the first that blocks ends the loop
circleLines(ls, o, radius) == \E i \in 1..Len(ls) : LineBlocks(ls[i], o, radius)

\* raySeg(o, d, a, b, hit, norm, t, u).  out holds the four reference
\* arguments as the caller passed them; the result holds what they are on
\* return, the returned bool ret, and the locals d23, t1 and t2.
\* norm = Vec3(-v2.y, v2.x) has two arguments and so selects
\* Vec3(f32 angle, f32 z)
\* a faulty test: the upper limit of t2 is not checked
RayTestOpen(a, v2, out, d23, t1, t2) ==
  IF FGe(t1, Zero) /\ FGe(t2, Zero)
  THEN [ret |-> TRUE,
        hit |-> Vec3(FAdd(a[1], FMul(v2[1], t2)), FAdd(a[2], FMul(v2[2], t2)), Zero),
        norm |-> Vec3Angle(FNeg(v2[2]), v2[1]),
        t |-> t1, u |-> t2, d23 |-> d23, t1 |-> t1, t2 |-> t2]
  ELSE [ret |-> FALSE, hit |-> out.hit, norm |-> out.norm, t |-> out.t, u |-> out.u,
        d23 |-> d23, t1 |-> t1, t2 |-> t2]
RayTest(a, v2, out, d23, t1, t2) ==
  IF FGe(t1, Zero) /\ FGe(t2, Zero) /\ FLe(t2, One)
  THEN [ret |-> TRUE,
        hit |-> Vec3(FAdd(a[1], FMul(v2[1], t2)), FAdd(a[2], FMul(v2[2], t2)), Zero),
        norm |-> Vec3Angle(FNeg(v2[2]), v2[1]),
        t |-> t1, u |-> t2, d23 |-> d23, t1 |-> t1, t2 |-> t2]
  ELSE [ret |-> FALSE, hit |-> out.hit, norm |-> out.norm, t |-> out.t, u |-> out.u,
        d23 |-> d23, t1 |-> t1, t2 |-> t2]
RayDivide(a, v1, v2, v3, out, d23) ==
  RayTest(a, v2, out, d23, FDiv(cross(v2, v1)[3], d23), FDiv(dot(v1, v3), d23))
RaySolve(a, v1, v2, v3, out) == RayDivide(a, v1, v2, v3, out, dot(v2, v3))
raySeg(o, d, a, b, out) ==
  RaySolve(a, VSub(o, a), VSub(b, a), Vec3(FNeg(d[2]), d[1], Zero), out)

\* rayLines' locals before its call of raySeg: Vec3 hitPos, hitNorm are zero,
\* f32 dist, u are not initialised (and are read only after a hit wrote them)
FreshOut ==
  [hit |-> Vec3(Zero, Zero, Zero), norm |-> Vec3(Zero, Zero, Zero),
   t |-> "indeterminate", u |-> "indeterminate"]

\* the HitInfo hi of a hit r on lines[i], with a and b the scaled endpoints
MakeHit(i, a, b, r) ==
  [line |-> i, position |-> r.hit, normal |-> r.norm, distance |-> r.t, u |-> r.u,
   length |-> FMul(FDiv(length(VSub(b, a)), blockSize), Two)]
\* one pass of rayLines' loop: lines[i] tested, and its HitInfo if it is hit
TestLine(i, a, b, r) == [ret |-> r.ret, hi |-> IF r.ret THEN MakeHit(i, a, b, r) ELSE << >>]
CastAt(ls, o, d, i, a, b) == TestLine(i, a, b, raySeg(o, d, a, b, FreshOut))
CastLine(ls, o, d, i) ==
  CastAt(ls, o, d, i, VScale(ls[i].a, blockSize), VScale(ls[i].b, blockSize))

\* md after the loop: the HitInfo of every hit line, in the order of the lines
Passed(tests) == SelectSeq(tests, LAMBDA c : c.ret)
Pushed(ps) == [k \in 1..Len(ps) |-> ps[k].hi]
RayHits(ls, o, d) == Pushed(Passed([i \in 1..Len(ls) |-> CastLine(ls, o, d, i)]))

\* a faulty comparator: the farther hit sorts first
SortFarther(x, y) == FGt(x.distance, y.distance)
\* the comparator given to std::sort
SortLess(x, y) == FLt(x.distance, y.distance)
\* std::sort leaves md ordered by SortLess, and the order of equivalent
\* elements is unspecified: md[0] is any element that no other sorts before
SortedFirst(md) ==
  {i \in 1..Len(md) : \A j \in 1..Len(md) : ~SortLess(md[j], md[i])}

\* rayLines(o, d, info): the results it can return, each the returned bool
\* and info on return
RayPick(md, info) ==
  IF md # << >> THEN {[ret |-> TRUE, info |-> md[i]] : i \in SortedFirst(md)}
  ELSE {[ret |-> FALSE, info |-> info]}
rayLines(ls, o, d, info) == RayPick(RayHits(ls, o, d), info)

(***************************************************************************)
(* RayCastGame::onUpdate                                                   *)
(***************************************************************************)
\* if (isHeld(SDLK_x)) { fov += dt; if (fov >= rad(120)) fov = rad(120); }
\* else if (isHeld(SDLK_z)) { fov -= dt; if (fov <= rad(20)) fov = rad(20); }
\* a faulty clamp: the limit is not applied
NoClamp(fov) == fov
ClampHigh(fov) == IF FGe(fov, rad(120)) THEN rad(120) ELSE fov
ClampLow(fov) == IF FLe(fov, rad(20)) THEN rad(20) ELSE fov
UpdateFov(fov, h, dt) ==
  IF "x" \in h THEN ClampHigh(FAdd(fov, dt))
  ELSE IF "z" \in h THEN ClampLow(FSub(fov, dt))
  ELSE fov

\* if (isHeld(SDLK_LEFT)) rotation -= dt * 1.8f; else if (isHeld(SDLK_RIGHT)) ...
UpdateRotation(rotation, h, dt) ==
  IF "LEFT" \in h THEN FSub(rotation, FMul(dt, TurnRate))
  ELSE IF "RIGHT" \in h THEN FAdd(rotation, FMul(dt, TurnRate))
  ELSE rotation

\* Vec3 dir(viewer.rotation); Vec3 delta = dir * dt * 4.0f
MoveDelta(rotation, dt) == VScale(VScale(Vec3Angle(rotation, Zero), dt), MoveSpeed)

\* what one UP or DOWN branch read, made and left: the position before, the
\* position dest it moved to, whether circleLines rejected dest, and the
\* position after, which is back (dest with delta taken off again) if it did
Landed(key, before, dest, hit, back) ==
  [key |-> key, before |-> before, dest |-> dest, collided |-> hit,
   after |-> IF hit THEN back ELSE dest]
\* viewer.position += delta; if (circleLines(position, 0.8f)) position -= delta;
MoveUp(position, dest, delta, ls) ==
  Landed("UP", position, dest, circleLines(ls, dest, CollisionRadius), VSub(dest, delta))
\* viewer.position -= delta; if (circleLines(position, 0.8f)) position += delta;
MoveDown(position, dest, delta, ls) ==
  Landed("DOWN", position, dest, circleLines(ls, dest, CollisionRadius), VAdd(dest, delta))
MoveViewer(position, delta, h, ls) ==
  IF "UP" \in h THEN MoveUp(position, VAdd(position, delta), delta, ls)
  ELSE IF "DOWN" \in h THEN MoveDown(position, VSub(position, delta), delta, ls)
  ELSE Landed("none", position, position, FALSE, position)

\* onUpdate(canvas, dt): the viewer it leaves and the record of its move
Updated(fov, rotation, mv) ==
  [viewer |-> [position |-> mv.after, rotation |-> rotation, fov |-> fov], move |-> mv]
Turned(fov, rotation, position, h, ls, dt) ==
  Updated(fov, rotation, MoveViewer(position, MoveDelta(rotation, dt), h, ls))
onUpdate(v, h, ls, dt) ==
  Turned(UpdateFov(v.fov, h, dt), UpdateRotation(v.rotation, h, dt), v.position, h, ls, dt)

(***************************************************************************)
(* GameCanvas::run.  Time is counted in sixtieths of a millisecond, so     *)
(* that timeStep = 1.0 / 60.0 seconds is the whole number below and the    *)
(* accumulator is exact; SDL_GetTicks() advances in milliseconds.          *)
(***************************************************************************)
timeStep == 1000
TicksPerMs == 60

NoMove ==
  [key |-> "none", before |-> Vec3(Zero, Zero, Zero), dest |-> Vec3(Zero, Zero, Zero),
   collided |-> FALSE, after |-> Vec3(Zero, Zero, Zero)]
NoCalls ==
  [setups |-> 0, updates |-> 0, draws |-> 0, credit |-> 0, ordered |-> TRUE, dt |-> StepDt]
NoColumn == [x |-> -1, accepted |-> FALSE, distance |-> Zero, d |-> Zero, fog |-> Zero]

\* the state when run is entered: the members as their declarations leave them
Constructed ==
  /\ running = TRUE
  /\ accum = 0
  /\ canRender = FALSE
  /\ held = {}
  /\ frames = 0
  /\ viewer = InitViewer
  /\ models = << >>
  /\ lines = << >>
  /\ calls = NoCalls
  /\ move = NoMove
  /\ drawn = [n |-> 0, before |-> << >>]
  /\ col = NoColumn

\* run is entered
Init ==
  /\ Constructed
  /\ pc = "setup"
  /\ query = << >>
  /\ result = << >>

\* if (m_renderer == nullptr || m_window == nullptr || m_buffer == nullptr)
\* return -1: the constructor could not make the window, and no callback runs
Refuse ==
  /\ pc = "setup"
  /\ pc' = "refused"
  /\ UNCHANGED <<running, accum, canRender, held, frames>>
  /\ UNCHANGED gameVars
  /\ UNCHANGED traceVars
  /\ UNCHANGED callVars

\* otherwise m_adapter->onSetup(this), once, before the loop
Setup ==
  /\ pc = "setup"
  /\ viewer' = SetupViewer(viewer)
  /\ models' = models \o SetupModels
  /\ calls' = [calls EXCEPT !.setups = @ + 1]
  /\ pc' = "poll"
  /\ UNCHANGED <<running, accum, canRender, held, frames, lines, move, drawn, col>>
  /\ UNCHANGED callVars

\* one pass of while (running) up to the update loop: canRender = false, the
\* clock is read and accum += delta, then SDL_PollEvent is drained.  ms is the
\* time since the previous reading (the first one includes onSetup), keys is
\* the set of held keys the key events leave, quit says whether SDL_QUIT was
\* among them
Frame(keySets, firstMs, laterMs, quits, maxFrames) ==
  /\ pc = "poll"
  /\ running
  /\ frames < maxFrames
  /\ \E ms \in (IF frames = 0 THEN firstMs ELSE laterMs), keys \in keySets, quit \in quits :
       /\ accum' = accum + ms * TicksPerMs
       /\ held' = keys
       /\ running' = ~quit
       /\ calls' = [calls EXCEPT !.updates = 0, !.draws = 0,
                                 !.credit = accum + ms * TicksPerMs]
  /\ canRender' = FALSE
  /\ frames' = frames + 1
  /\ pc' = "update"
  /\ UNCHANGED <<move, drawn, col>>
  /\ UNCHANGED gameVars
  /\ UNCHANGED callVars

\* the rotations whose cosf and sinf are tabulated: an update that would turn
\* the viewer past them is not taken
Tabulated(rotation) == rotation \in DOMAIN TrigTable

\* a faulty loop condition: any time in hand is taken for a whole step
UpdateDueEarly(acc) == acc > 0
\* the condition of the update loop
UpdateDue(acc) == acc >= timeStep

\* while (accum >= timeStep) { onUpdate(this, f32(timeStep)); accum -= timeStep;
\*                             canRender = true; }, one pass
Leave(u) ==
  /\ viewer' = u.viewer
  /\ move' = u.move
Update ==
  /\ pc = "update"
  /\ UpdateDue(accum)
  /\ Tabulated(UpdateRotation(viewer.rotation, held, StepDt))
  /\ Leave(onUpdate(viewer, held, lines, StepDt))
  /\ accum' = accum - timeStep
  /\ canRender' = TRUE
  /\ calls' = [calls EXCEPT !.updates = @ + 1,
                            !.ordered = @ /\ calls.setups = 1 /\ calls.draws = 0,
                            !.dt = StepDt]
  /\ UNCHANGED <<pc, running, held, frames, models, lines, drawn, col>>
  /\ UNCHANGED callVars

\* onDraw as far as the members go: lines is cleared and rebuilt from models
\* (the pixels it puts are not part of the state here)
Draw ==
  /\ pc = "update"
  /\ ~UpdateDue(accum)
  /\ canRender
  /\ lines' = BuildLines(lines, models)
  /\ drawn' = [n |-> drawn.n + 1, before |-> lines]
  /\ calls' = [calls EXCEPT !.draws = @ + 1, !.ordered = @ /\ calls.setups = 1]
  /\ pc' = "poll"
  /\ UNCHANGED <<running, accum, canRender, held, frames, viewer, models, move, col>>
  /\ UNCHANGED callVars

\* if (canRender) is false: the pass ends without a draw
Skip ==
  /\ pc = "update"
  /\ ~UpdateDue(accum)
  /\ ~canRender
  /\ pc' = "poll"
  /\ UNCHANGED <<running, accum, canRender, held, frames, calls, move, drawn, col>>
  /\ UNCHANGED gameVars
  /\ UNCHANGED callVars

\* while (running) fails: the renderer and the window are destroyed, run returns
Exit ==
  /\ pc = "poll"
  /\ ~running
  /\ pc' = "done"
  /\ UNCHANGED <<running, accum, canRender, held, frames, calls, move, drawn, col>>
  /\ UNCHANGED gameVars
  /\ UNCHANGED callVars

(***************************************************************************)
(* The program under a player who taps the arrow keys and may close the    *)
(* window.                                                                 *)
(***************************************************************************)
MaxFrames == 3
PlayKeys == {{}, {"UP", "LEFT"}}
PlayFirstMs == {5, 40}
PlayMs == {5, 25}

Next ==
  \/ Refuse
  \/ Setup
  \/ Frame(PlayKeys, PlayFirstMs, PlayMs, BOOLEAN, MaxFrames)
  \/ Update
  \/ Draw
  \/ Skip
  \/ Exit

Spec == Init /\ [][Next]_vars

(***************************************************************************)
(* C1                                                                      *)
(***************************************************************************)
\* C1: once run is past its entry check, onSetup has been called exactly
\* once, and before any update or draw (a refused run calls nothing); a pass
\* of the loop calls onUpdate once per whole timeStep the accumulator held
\* after the clock was read, each time with dt = timeStep, and then calls
\* onDraw exactly once if at least one update ran and not at all otherwise;
\* no update follows the draw of its pass.
RunCallsInOrder ==
  /\ calls.setups = (IF pc \in {"setup", "refused"} THEN 0 ELSE 1)
  /\ calls.ordered
  /\ calls.dt = StepDt
  /\ calls.draws <= 1
  /\ calls.draws = 1 => calls.updates >= 1
  /\ (pc \in {"poll", "done"} /\ frames > 0) =>
       /\ calls.updates = calls.credit \div timeStep
       /\ calls.draws = (IF calls.updates >= 1 THEN 1 ELSE 0)

\* a pass that has ended after two updates and its draw
RunTwoUpdatesOneDraw == pc = "poll" /\ calls.updates = 2 /\ calls.draws = 1

(***************************************************************************)
(* C9                                                                      *)
(***************************************************************************)
\* the number of lines the models before the m-th contribute
RECURSIVE LinesAhead(_, _)
LinesAhead(ms, m) ==
  IF m <= 1 THEN 0 ELSE LinesAhead(ms, m - 1) + Len(ms[m - 1].indices) \div 2

\* the line the k-th index pair of the m-th model stands for
PairLine(ms, m, k) ==
  [a |-> VAdd(ms[m].vertices[ms[m].indices[2 * k - 1] + 1].pos, ms[m].position),
   b |-> VAdd(ms[m].vertices[ms[m].indices[2 * k] + 1].pos, ms[m].position),
   u0 |-> ms[m].vertices[ms[m].indices[2 * k - 1] + 1].u,
   u1 |-> ms[m].vertices[ms[m].indices[2 * k] + 1].u,
   texture |-> m]

\* C9: when onDraw has returned, the line list is the flattening of models:
\* for each model in order and each consecutive index pair one line, whose
\* endpoints are the indexed vertices' positions plus the model's position,
\* whose u0 and u1 are those vertices' u, and whose texture is the model's;
\* its length is the sum over the models of indices / 2, whatever the list
\* held before; every index count is even and every index names a vertex;
\* and a second draw leaves the list the first one left.
LinesAreTheModels ==
  (pc = "poll" /\ calls.draws = 1) =>
    /\ Len(lines) = LinesAhead(models, Len(models) + 1)
    /\ \A m \in 1..Len(models) :
         /\ Len(models[m].indices) % 2 = 0
         /\ \A i \in 1..Len(models[m].indices) :
              models[m].indices[i] \in 0..(Len(models[m].vertices) - 1)
         /\ \A k \in 1..(Len(models[m].indices) \div 2) :
              lines[LinesAhead(models, m) + k] = PairLine(models, m, k)
    /\ drawn.n >= 2 => lines = drawn.before

\* the second draw has returned, over the non-empty list of the first
LinesRebuiltTwice ==
  /\ pc = "poll"
  /\ calls.draws = 1
  /\ drawn.n = 2
  /\ Len(drawn.before) = 196
  /\ Len(lines) = 196

(***************************************************************************)
(* C6: the program under a player who holds x or z, in passes that are     *)
(* short or follow a stall of the machine                                  *)
(***************************************************************************)
MaxFovFrames == 3
FovKeys == {{"x"}, {"z"}}
FovMs == {5, 620}

NextFov ==
  \/ Refuse
  \/ Setup
  \/ Frame(FovKeys, FovMs, FovMs, {FALSE}, MaxFovFrames)
  \/ Update
  \/ Draw
  \/ Skip

SpecFov == Init /\ [][NextFov]_vars

\* C6: the field of view stays within rad(20) <= fov <= rad(120)
FovInRange == FLe(rad(20), viewer.fov) /\ FLe(viewer.fov, rad(120))

\* an update with x held has just left the field of view at its upper limit,
\* in a pass that had already raised it
FovClampedHigh ==
  /\ pc = "update"
  /\ "x" \in held
  /\ calls.updates >= 33
  /\ viewer.fov = rad(120)

(***************************************************************************)
(* raySeg, rayLines and circleLines taken alone: one call of one of them   *)
(* on a short line list, an origin and a direction.  The segments are in   *)
(* the units of Line (the functions scale them by blockSize): four walls   *)
(* of the room, a piece of the first wall (which ties with it), and a      *)
(* segment of no length.  The origins are in the room, on a wall, at the   *)
(* collision radius from one, and beside the piece past its end.           *)
(***************************************************************************)
MaxSegs == 2

Seg(ax, ay, bx, by) ==
  [a |-> Vec3(FromInt(ax), FromInt(ay), Zero), b |-> Vec3(FromInt(bx), FromInt(by), Zero),
   u0 |-> Zero, u1 |-> One, texture |-> 1]
GeomSegs ==
  { Seg(0, 0, 6, 0), Seg(6, 0, 6, 6), Seg(6, 6, 0, 6), Seg(0, 3, 6, 3),
    Seg(2, 0, 4, 0), Seg(3, 3, 3, 3) }
Half == <<8388608, -24>>
GeomOrigins ==
  { Vec3(FromInt(8), FromInt(8), Zero), Vec3(FromInt(24), FromInt(8), Zero),
    Vec3(FromInt(40), Half, Zero), Vec3(FromInt(24), CollisionRadius, Zero),
    Vec3(FromInt(8), Zero, Zero) }
GeomDirs ==
  { Vec3(One, Zero, Zero), Vec3(Zero, One, Zero), Vec3(Zero, FNeg(One), Zero),
    Vec3(FNeg(One), FNeg(One), Zero), Vec3(Zero, Zero, Zero) }
\* the reference arguments of raySeg as a caller holds them before the call
PriorOut ==
  [hit |-> Vec3(One, Two, Zero), norm |-> Vec3(Two, One, Zero), t |-> Two, u |-> Half]
PriorInfo ==
  [line |-> 0, position |-> Vec3(One, Two, Zero), normal |-> Vec3(Two, One, Zero),
   distance |-> Two, u |-> Half, length |-> One]
LineLists == UNION {[1..n -> GeomSegs] : n \in 1..MaxSegs}

InitGeom ==
  /\ Constructed
  /\ pc = "call"
  /\ query \in [ls : LineLists, o : GeomOrigins, d : GeomDirs]
  /\ result = << >>

\* raySeg on the first line of the list, scaled as rayLines scales it
RaySegCall ==
  /\ pc = "call"
  /\ result' = raySeg(query.o, query.d, VScale(query.ls[1].a, blockSize),
                      VScale(query.ls[1].b, blockSize), PriorOut)
  /\ pc' = "raySeg"
  /\ UNCHANGED <<running, accum, canRender, held, frames, query>>
  /\ UNCHANGED gameVars
  /\ UNCHANGED traceVars

RayLinesCall ==
  /\ pc = "call"
  /\ result' \in rayLines(query.ls, query.o, query.d, PriorInfo)
  /\ pc' = "rayLines"
  /\ UNCHANGED <<running, accum, canRender, held, frames, query>>
  /\ UNCHANGED gameVars
  /\ UNCHANGED traceVars

CircleLinesCall ==
  /\ pc = "call"
  /\ result' = [ret |-> circleLines(query.ls, query.o, CollisionRadius)]
  /\ pc' = "circleLines"
  /\ UNCHANGED <<running, accum, canRender, held, frames, query>>
  /\ UNCHANGED gameVars
  /\ UNCHANGED traceVars

NextGeom ==
  \/ RaySegCall
  \/ RayLinesCall
  \/ CircleLinesCall

SpecGeom == InitGeom /\ [][NextGeom]_vars

\* raySeg's verdict on the i-th line of the query
HitOn(i) ==
  raySeg(query.o, query.d, VScale(query.ls[i].a, blockSize),
         VScale(query.ls[i].b, blockSize), FreshOut)

\* C3: rayLines returns false exactly when raySeg reports no hit for every
\* line; otherwise it returns true with the HitInfo of one of the hits, and
\* that hit's distance is at most the distance of the hit on every line
RayLinesNearest ==
  pc = "rayLines" =>
    /\ result.ret = (\E i \in 1..Len(query.ls) : HitOn(i).ret)
    /\ ~result.ret => result.info = PriorInfo
    /\ result.ret =>
         /\ \E i \in 1..Len(query.ls) :
              /\ HitOn(i).ret
              /\ result.info.line = i
              /\ result.info.distance = HitOn(i).t
              /\ result.info.position = HitOn(i).hit
              /\ result.info.u = HitOn(i).u
         /\ \A j \in 1..Len(query.ls) :
              HitOn(j).ret => FLe(result.info.distance, HitOn(j).t)

\* rayLines has returned a hit where two lines were hit at different distances
RayLinesTwoHits ==
  /\ pc = "rayLines"
  /\ result.ret
  /\ Len(query.ls) = 2
  /\ HitOn(1).ret
  /\ HitOn(2).ret
  /\ FLt(HitOn(2).t, HitOn(1).t)

\* dot(b - a, perp(d)) == 0 for the query's ray and its first line
Parallel ==
  FEq(dot(VSub(VScale(query.ls[1].b, blockSize), VScale(query.ls[1].a, blockSize)),
          Vec3(FNeg(query.d[2]), query.d[1], Zero)), Zero)

\* C4, as far as the code goes: when dot(b - a, perp(d)) == 0, raySeg returns
\* false and leaves hit, norm, t and u as the caller passed them.  (It does so
\* because no comparison with the infinite or NaN quotients succeeds: the
\* division by d23 is made.)
RaySegParallelNoHit ==
  (pc = "raySeg" /\ Parallel) =>
    /\ ~result.ret
    /\ result.hit = PriorOut.hit
    /\ result.norm = PriorOut.norm
    /\ result.t = PriorOut.t
    /\ result.u = PriorOut.u

\* C4 as stated: the same, and the zero denominator is guarded, so that no
\* quotient by it (an infinity or a NaN) is formed
RaySegParallelGuarded ==
  (pc = "raySeg" /\ Parallel) =>
    /\ ~result.ret
    /\ result.hit = PriorOut.hit
    /\ result.norm = PriorOut.norm
    /\ result.t = PriorOut.t
    /\ result.u = PriorOut.u
    /\ IsFinite(result.t1)
    /\ IsFinite(result.t2)

\* raySeg has returned for a ray parallel to a segment that has a length
RaySegParallelCase ==
  /\ pc = "raySeg"
  /\ Parallel
  /\ query.ls[1].a # query.ls[1].b
  /\ query.d # Vec3(Zero, Zero, Zero)
  /\ ~result.ret

\* the projection parameter of o on the i-th line and the distance from o to
\* the closest point of the line through it
ProjT(i) ==
  closestPoint(VScale(query.ls[i].a, blockSize), VScale(query.ls[i].b, blockSize), query.o).t
ProjDist(i) ==
  length(VSub(closestPoint(VScale(query.ls[i].a, blockSize),
                           VScale(query.ls[i].b, blockSize), query.o).p, query.o))
InSpan(i) == FGe(ProjT(i), Zero) /\ FLe(ProjT(i), One)

\* C5: circleLines rejects the position if some line has its projection
\* parameter in [0, 1] and its closest point nearer than radius; it accepts
\* the position when every line has the parameter outside [0, 1] or the
\* closest point farther than radius.  So a line whose parameter is outside
\* [0, 1] never blocks, however near its extension passes.
CircleLinesRejects ==
  pc = "circleLines" =>
    /\ (\E i \in 1..Len(query.ls) : InSpan(i) /\ FLt(ProjDist(i), CollisionRadius))
         => result.ret
    /\ (\A i \in 1..Len(query.ls) : ~InSpan(i) \/ FGt(ProjDist(i), CollisionRadius))
         => ~result.ret

\* circleLines has accepted a position that is nearer than radius to the
\* extension of the only line, past the line's end
CircleLinesPastEnd ==
  /\ pc = "circleLines"
  /\ Len(query.ls) = 1
  /\ FGt(ProjT(1), One)
  /\ FLt(ProjDist(1), CollisionRadius)
  /\ ~result.ret

(***************************************************************************)
(* C2, C10: the program under a player who walks backwards from the start  *)
(* towards the wall x = 0, with or without turning left, where the first   *)
(* pass of the loop follows a stall (lastTime is read before onSetup, so   *)
(* the first delta includes the loading of the textures)                   *)
(***************************************************************************)
MaxMoveFrames == 2
MoveKeys == {{"DOWN"}, {"DOWN", "LEFT"}}
MoveFirstMs == {1810, 1830}
MoveMs == {5, 25}

NextMove ==
  \/ Refuse
  \/ Setup
  \/ Frame(MoveKeys, MoveFirstMs, MoveMs, {FALSE}, MaxMoveFrames)
  \/ Update
  \/ Draw
  \/ Skip

SpecMove == Init /\ [][NextMove]_vars

\* C2: an onUpdate with UP or DOWN held leaves the position exactly where it
\* was before the update if circleLines rejected the destination, and at
\* the destination otherwise
MoveIsAllOrNothing ==
  move.key # "none" =>
    /\ viewer.position = move.after
    /\ move.collided => move.after = move.before
    /\ ~move.collided => move.after = move.dest

\* an update has had its move rejected
MoveRejected == move.key = "DOWN" /\ move.collided /\ Len(lines) = 196

\* C10: the viewer is never nearer than the collision radius 0.8f to a world
\* segment of any model (each index pair's endpoints scaled by blockSize, the
\* distance taken at the closest point when its parameter is in [0, 1])
ViewerKeepsClear ==
  \A m \in 1..Len(models) :
    \A k \in 1..(Len(models[m].indices) \div 2) :
      ~LineBlocks(PairLine(models, m, k), viewer.position, CollisionRadius)

\* the viewer has moved while the line list was still empty
MovedBeforeFirstDraw == move.key = "DOWN" /\ drawn.n = 0 /\ lines = << >> /\ models # << >>

(***************************************************************************)
(* C8: onDraw column by column.  The canvas of main is 640 / 2 columns     *)
(* wide.  Of a column the model keeps the ray's nearest hit, whether the   *)
(* column is drawn, and d and fog; the rows of pixels are not modelled.    *)
(***************************************************************************)
CanvasWidth == 320

\* Vec3 plane(0.0f, thf, 0.0f); plane = plane.rotateZ(viewer.rotation)
rotateZ(v, angle) ==
  Vec3(FSub(FMul(v[1], cosf(angle)), FMul(v[2], sinf(angle))),
       FAdd(FMul(v[1], sinf(angle)), FMul(v[2], cosf(angle))), v[3])
\* xf = (f32(x) / f32(canvas->width())) * 2.0f - 1.0f
ColumnXf(x) == FSub(FMul(FDiv(FromInt(x), FromInt(CanvasWidth)), Two), One)
\* Vec3 rayDir(cosf(rotation) + plane.x * xf, sinf(rotation) + plane.y * xf, 0.0f)
RayDir(rotation, plane, xf) ==
  Vec3(FAdd(cosf(rotation), FMul(plane[1], xf)), FAdd(sinf(rotation), FMul(plane[2], xf)), Zero)

\* HitInfo info; is not initialised
FreshInfo ==
  [line |-> "indeterminate", position |-> "indeterminate", normal |-> "indeterminate",
   distance |-> "indeterminate", u |-> "indeterminate", length |-> "indeterminate"]

\* the body of the column loop for column x, given what rayLines returned:
\* if (rayLines(...) && info.distance < maxDepth) { d = info.distance * thf;
\*   ...; fog = 1.0f - (d / maxDepth); ... }
Shaded(x, distance, d) ==
  [x |-> x, accepted |-> TRUE, distance |-> distance, d |-> d,
   fog |-> FSub(One, FDiv(d, maxDepth))]
ColumnOf(x, r, thf) ==
  IF r.ret /\ FLt(r.info.distance, maxDepth)
  THEN Shaded(x, r.info.distance, FMul(r.info.distance, thf))
  ELSE [x |-> x, accepted |-> FALSE, distance |-> Zero, d |-> Zero, fog |-> Zero]
\* the results rayLines can return for column x
ColumnRay(v, ls, x, thf) ==
  rayLines(ls, v.position,
           RayDir(v.rotation, rotateZ(Vec3(Zero, thf, Zero), v.rotation), ColumnXf(x)),
           FreshInfo)

\* onDraw up to the column loop: the line list is rebuilt, thf is taken
DrawBegin ==
  /\ pc = "update"
  /\ ~UpdateDue(accum)
  /\ canRender
  /\ FDiv(viewer.fov, Two) \in DOMAIN TanTable
  /\ lines' = BuildLines(lines, models)
  /\ drawn' = [n |-> drawn.n + 1, before |-> lines]
  /\ calls' = [calls EXCEPT !.draws = @ + 1, !.ordered = @ /\ calls.setups = 1]
  /\ col' = NoColumn
  /\ pc' = "column"
  /\ UNCHANGED <<running, accum, canRender, held, frames, viewer, models, move>>
  /\ UNCHANGED callVars

\* one pass of for (u32 x = 0; x < canvas->width(); x++)
DrawColumn ==
  /\ pc = "column"
  /\ col.x + 1 < CanvasWidth
  /\ \E r \in ColumnRay(viewer, lines, col.x + 1, tanf(FDiv(viewer.fov, Two))) :
       col' = ColumnOf(col.x + 1, r, tanf(FDiv(viewer.fov, Two)))
  /\ UNCHANGED <<calls, move, drawn>>
  /\ UNCHANGED canvasVars
  /\ UNCHANGED gameVars
  /\ UNCHANGED callVars

\* the column loop ends; onDraw returns
DrawEnd ==
  /\ pc = "column"
  /\ col.x + 1 = CanvasWidth
  /\ pc' = "poll"
  /\ UNCHANGED <<running, accum, canRender, held, frames>>
  /\ UNCHANGED gameVars
  /\ UNCHANGED traceVars
  /\ UNCHANGED callVars

\* the program under a player who holds x, where the first pass of the loop
\* is short or follows a stall
MaxRenderFrames == 1
RenderKeys == {{"x"}}
RenderMs == {5, 410}

NextRender ==
  \/ Refuse
  \/ Setup
  \/ Frame(RenderKeys, RenderMs, RenderMs, {FALSE}, MaxRenderFrames)
  \/ Update
  \/ DrawBegin
  \/ DrawColumn
  \/ DrawEnd
  \/ Skip

SpecRender == Init /\ [][NextRender]_vars

\* C8: for a column that onDraw accepts (its nearest hit is nearer than
\* maxDepth), with the field of view within [rad(20), rad(120)], the wall
\* fog factor fog = 1 - d / maxDepth, d = distance * tan(fov / 2), is not
\* negative
FogNotNegative ==
  (pc = "column" /\ col.x >= 0 /\ col.accepted /\ FovInRange) => FGe(col.fog, Zero)

\* a column has been accepted and shaded
ColumnShaded == pc = "column" /\ col.x >= 0 /\ col.accepted /\ FGt(col.fog, Zero)

(***************************************************************************)
(* C7: Texture::sample and Texture::get taken alone.  A u32 is a pair      *)
(* <<hi, lo>> of 16-bit halves, the number hi * 65536 + lo.                *)
(***************************************************************************)
U32(n) == <<n \div 65536, n % 65536>>
\* 2^32 + n for a negative n
U32Wrap(n) == <<65535 - ((-n - 1) \div 65536), 65535 - ((-n - 1) % 65536)>>
\* x + 1 in u32
U32Inc(x) ==
  IF x[2] < 65535 THEN <<x[1], x[2] + 1>>
  ELSE IF x[1] < 65535 THEN <<x[1] + 1, 0>>
  ELSE <<0, 0>>
\* x % w in u32, for a w below 2^15
U32Mod(x, w) == ((x[1] % w) * (65536 % w) + (x[2] % w)) % w
\* a u32 converted to f32
U32ToF32(x) ==
  IF x[1] < 32768 THEN RoundPack(1, x[1] * 65536 + x[2], 0, FALSE)
  ELSE RoundPack(1, x[1] * 32768 + x[2] \div 2, 1, x[2] % 2 = 1)

\* ::floor of a finite f32 of magnitude below 2^31, as an integer
Floor(a) ==
  IF a[2] >= 0 THEN a[1] * Pow2[a[2]]
  ELSE IF -a[2] > 30 THEN (IF a[1] < 0 THEN -1 ELSE 0)
  ELSE a[1] \div Pow2[-a[2]]

\* u32 x = ::floor(u): the conversion of the floating value n to u32.  For a
\* negative n the behaviour is undefined; builds that convert through a
\* 64-bit integer leave 2^32 + n, builds with a saturating conversion leave 0
Conversions == {"wraps", "saturates"}
ToU32(n, conversion) ==
  IF n >= 0 THEN U32(n)
  ELSE IF conversion = "wraps" THEN U32Wrap(n)
  ELSE U32(0)

F255 == <<16711680, -16>>

\* Texture::get(x, y)
PixelIndex(tex, x, y) == (U32Mod(x, tex.width) + U32Mod(y, tex.height) * tex.width) * 3
Pixel(tex, uvi) ==
  Vec3(FDiv(FromInt(tex.pixels[uvi + 1]), F255), FDiv(FromInt(tex.pixels[uvi + 2]), F255),
       FDiv(FromInt(tex.pixels[uvi + 3]), F255))
get(tex, x, y) ==
  IF tex.width = 0 \/ tex.height = 0 THEN Vec3(One, Zero, One)
  ELSE Pixel(tex, PixelIndex(tex, x, y))

\* Texture::sample(u, v): the colour it returns and the indices of m_pixels
\* its four calls of get read
Fetched(tex, x, y) ==
  IF tex.width = 0 \/ tex.height = 0 THEN {}
  ELSE UNION {{PixelIndex(tex, p[1], p[2]) + c : c \in 0..2} :
              p \in {<<x, y>>, <<U32Inc(x), y>>, <<x, U32Inc(y)>>, <<U32Inc(x), U32Inc(y)>>}}
Weighed(tex, x, y, ur, vr, uo, vo) ==
  [colour |->
     VAdd(VScale(VAdd(VScale(get(tex, x, y), uo), VScale(get(tex, U32Inc(x), y), ur)), vo),
          VScale(VAdd(VScale(get(tex, x, U32Inc(y)), uo),
                      VScale(get(tex, U32Inc(x), U32Inc(y)), ur)), vr)),
   reads |-> Fetched(tex, x, y)]
Mixed(tex, x, y, ur, vr) == Weighed(tex, x, y, ur, vr, FSub(One, ur), FSub(One, vr))
Floored(tex, u, v, x, y) == Mixed(tex, x, y, FSub(u, U32ToF32(x)), FSub(v, U32ToF32(y)))
Scaled(tex, u, v, conversion) ==
  Floored(tex, u, v, ToU32(Floor(u), conversion), ToU32(Floor(v), conversion))
sample(tex, u, v, conversion) ==
  Scaled(tex, FMul(u, U32ToF32(U32(tex.width))), FMul(v, U32ToF32(U32(tex.height))),
         conversion)

\* textures of a few sizes (one of them never loaded), their bytes a fixed
\* pattern; coordinates that are multiples of 1/4, so that every product and
\* difference sample forms from a coordinate that is not negative is exact
MaxTexSize == 3
Tex(w, h) == [width |-> w, height |-> h, pixels |-> [i \in 1..(w * h * 3) |-> (i * 53 + 17) % 256]]
Textures == {Tex(0, 0)} \cup {Tex(w, h) : w \in 1..MaxTexSize, h \in 1..2}
Quarter(n) == FDiv(FromInt(n), FromInt(4))
TexCoords == {FNeg(Quarter(1)), Zero, Quarter(1), Quarter(3), Quarter(6)}

InitTex ==
  /\ Constructed
  /\ pc = "call"
  /\ query \in [tex : Textures, u : TexCoords, v : TexCoords]
  /\ result = << >>

\* sample at (u, v), at (u + 1, v) and at (u, v + 1), on one build
SampleCall ==
  /\ pc = "call"
  /\ \E conversion \in Conversions :
       result' = [at |-> sample(query.tex, query.u, query.v, conversion),
                  right |-> sample(query.tex, FAdd(query.u, One), query.v, conversion),
                  below |-> sample(query.tex, query.u, FAdd(query.v, One), conversion)]
  /\ pc' = "sample"
  /\ UNCHANGED <<running, accum, canRender, held, frames, query>>
  /\ UNCHANGED gameVars
  /\ UNCHANGED traceVars

NextTex == SampleCall

SpecTex == InitTex /\ [][NextTex]_vars

\* C7: on a texture of non-zero size sample wraps: sample(u, v) equals
\* sample(u + 1, v) and sample(u, v + 1), also where u or v is negative, and
\* every pixel fetch reads an index inside the pixel buffer
SampleWraps ==
  (pc = "sample" /\ query.tex.width > 0 /\ query.tex.height > 0) =>
    /\ result.at.colour = result.right.colour
    /\ result.at.colour = result.below.colour
    /\ \A s \in {result.at, result.right, result.below} :
         s.reads \subseteq 0..(Len(query.tex.pixels) - 1)

\* sample has returned for a negative u on a texture two pixels wide
SampleNegative ==
  /\ pc = "sample"
  /\ query.tex.width = 2
  /\ FLt(query.u, Zero)
  /\ FGe(query.v, Zero)

====
